---- MODULE Spec2Model ----
(***************************************************************************)
(* State-machine model of scripts/monitor_deployment.py: the               *)
(* DeploymentMonitor session (construction, the monitor loop, one step per *)
(* statement group of the loop body) together with the collaborators it    *)
(* calls (CloudWatch, the chat-completion classifier, Slack, ECS), whose   *)
(* answers are drawn nondeterministically from small sets.                 *)
(***************************************************************************)
EXTENDS Integers, Sequences, FiniteSets, TLC

\* ---- bounds of the model ------------------------------------------------
\* Largest duration_minutes tried; one tick of the loop sleeps one minute.
MaxDuration == 2
\* Largest number of ACTIVE task definitions the platform lists.
MaxRevisions == 3

\* ---- configuration (DeploymentMonitor.__init__) -------------------------
thresholds ==
    [error_rate |-> 5, cpu_usage |-> 80, memory_usage |-> 85,
     response_time |-> 2000, latency |-> 1000]

\* ---- CloudWatch responses ------------------------------------------------
\* A response carries a (possibly empty) list of datapoints.
DatapointLists(vals) == {<< >>} \cup {<<v>> : v \in vals}

\* resp['Datapoints'][-1][stat] if resp['Datapoints'] else 0
LastOrZero(dps) == IF Len(dps) > 0 THEN dps[Len(dps)] ELSE 0

CurrentResponses ==
    [error_rate   : DatapointLists({0, 6}),
     avg_latency  : DatapointLists({2001}),
     cpu_usage    : DatapointLists({81}),
     memory_usage : DatapointLists({85})]

NoResponses ==
    [error_rate |-> << >>, avg_latency |-> << >>,
     cpu_usage |-> << >>, memory_usage |-> << >>]

BaselineResponses ==
    [error_rate : DatapointLists({2}), cpu_usage : {<<20>>}]

\* get_baseline_metrics: the dict built from two responses
BaselineOf(r) ==
    [error_rate |-> LastOrZero(r.error_rate),
     cpu_usage  |-> LastOrZero(r.cpu_usage)]

\* get_baseline_metrics: the except branch
BaselineDefault == [error_rate |-> 0, cpu_usage |-> 0]

\* get_current_metrics: the dict built from four responses; `some` is FALSE
\* for the None the except branch returns.
MetricsOf(r) ==
    [some         |-> TRUE,
     error_rate   |-> LastOrZero(r.error_rate),
     avg_latency  |-> LastOrZero(r.avg_latency),
     cpu_usage    |-> LastOrZero(r.cpu_usage),
     memory_usage |-> LastOrZero(r.memory_usage)]

NoMetrics ==
    [some |-> FALSE, error_rate |-> 0, avg_latency |-> 0,
     cpu_usage |-> 0, memory_usage |-> 0]

\* ---- check_thresholds -----------------------------------------------------
Opt(cond, name) == IF cond THEN <<name>> ELSE << >>

check_thresholds_CpuFirst(m) ==
    Opt(m.cpu_usage > thresholds.cpu_usage, "High CPU usage")
    \o Opt(m.error_rate > thresholds.error_rate, "High error rate")
    \o Opt(m.memory_usage > thresholds.memory_usage, "High memory usage")
    \o Opt(m.avg_latency > thresholds.response_time, "High response time")

check_thresholds(m) ==
    Opt(m.error_rate > thresholds.error_rate, "High error rate")
    \o Opt(m.cpu_usage > thresholds.cpu_usage, "High CPU usage")
    \o Opt(m.memory_usage > thresholds.memory_usage, "High memory usage")
    \o Opt(m.avg_latency > thresholds.response_time, "High response time")

\* ---- classifier payloads (json.loads of the completion) -------------------
\* JSON values are written as strings: "absent" when the key is missing,
\* "true"/"false"/"null" for the literals, a quoted text for a JSON string.
JAbsent == "absent"
JTrue == "true"
JFalse == "false"
JNull == "null"

\* Python truthiness of dict.get(key) for the values above.
Truthy(v) == v \notin {JAbsent, JFalse, JNull}

\* dict.get(key, default)
GetOr(v, default) == IF v = JAbsent THEN default ELSE v

\* ', '.join(x) succeeds on a list of strings, raises TypeError on null.
Joinable(v) == v # JNull

Verdicts ==
    [kind                 : {"dict"},
     anomaly_detected     : {JAbsent, JFalse, JTrue, "'YES'"},
     severity             : {JAbsent, "CRITICAL", "HIGH", "SEVERE"},
     causes               : {"[strs]", JNull},
     recommendations      : {"[strs]", JNull},
     rollback_recommended : {JAbsent, JFalse, JTrue, "'NO'"}]

Blank(k) ==
    [kind |-> k, anomaly_detected |-> JAbsent, severity |-> JAbsent,
     causes |-> "[strs]", recommendations |-> "[strs]",
     rollback_recommended |-> JAbsent]

\* detect_anomalies returned None (call failed, payload not JSON)
NoAnalysis == Blank("None")
\* the payload parsed to a non-empty JSON array: truthy, but has no .get
ListAnalysis == Blank("list")

\* ---- exception handling ----------------------------------------------------
\* `except Exception` clauses: what each one catches.  KeyboardInterrupt is a
\* BaseException and is caught by none of them.
RollbackCatches_Nothing(exc) == FALSE

RollbackCatches(exc) == exc = "Exception"

SendAlertCatches_Nothing(exc) == FALSE

SendAlertCatches(exc) == exc = "Exception"

\* detect_anomalies: try/except Exception around the completion call and
\* json.loads
DetectCatches_Nothing(exc) == FALSE

DetectCatches(exc) == exc = "Exception"

\* monitor: where an Exception raised in the loop body ends up.  The
\* `except Exception` clause of the loop prints and sleeps; without it the
\* exception would leave monitor().
OnTickError_Propagates == "aborted"

OnTickError == "err_sleep"

\* monitor: `except KeyboardInterrupt: ...; break`
AfterInterrupt_Continue == "loop_check"

AfterInterrupt == "report"

\* monitor: `if not metrics: time.sleep(60); continue`
AfterFetch_NoSkip(m) == "check_thresholds"

AfterFetch(m) == IF m.some THEN "check_thresholds" ELSE "skip_sleep"

\* monitor: the loop condition datetime.utcnow() < end_time
DeadlineOpen_Inclusive(t, deadline) == t <= deadline

DeadlineOpen(t, deadline) == t < deadline

\* send_alert: requests.post(url, json=...) is called without timeout=, so a
\* webhook that never answers is waited for without limit
PostHasTimeout == FALSE

\* ---- rollback_deployment: choice of the target -----------------------------
\* arns are listed newest first (sort='DESC'); arns[1] in Python is the second
\* element, index 2 here.  The result is << >> when the function returns
\* False for want of a previous version, <<previous_task_def>> otherwise.
PreviousTaskDef_OffByOne(arns) == IF Len(arns) < 1 THEN << >> ELSE <<arns[1]>>

PreviousTaskDef_Newest(arns) == IF Len(arns) < 2 THEN << >> ELSE <<arns[1]>>

PreviousTaskDef(arns) == IF Len(arns) < 2 THEN << >> ELSE <<arns[2]>>

\* list_task_definitions answer with n revisions, newest first: n, n-1, .., 1
Listing(n) == [i \in 1..n |-> n - i + 1]

\* where the loop goes after the rollback branch (the `break`)
AfterRollback_NoBreak == "sleep"

AfterRollback == "report"

VARIABLES
    pc,                 \* position of the session
    now,                \* minutes since monitor() started
    end_time,           \* start_time + duration_minutes
    slack_webhook_url,  \* TRUE when a webhook is configured
    baseline_metrics,   \* self.baseline_metrics
    baselineLoad,       \* how get_baseline_metrics ended: "none"/"ok"/"failed"
    responses,          \* what CloudWatch returned in this tick
    fetchFailed,        \* TRUE when a CloudWatch call raised in this tick
    metrics,            \* local `metrics`
    threshold_alerts,   \* local `threshold_alerts`
    anomaly_analysis,   \* local `anomaly_analysis`
    alerts,             \* send_alert calls of this tick, in order
    rollbackCalls,      \* number of rollback_deployment invocations
    listing,            \* answer of ecs.list_task_definitions
    switchRequests,     \* targets of the ecs.update_service requests issued
    switchReply,        \* "none", "ok" or "error"
    rbResult,           \* "none", "running", "True", "False", "interrupted", "raised"
    interrupted,        \* KeyboardInterrupt was delivered
    finalReport,        \* "Monitoring completed" was printed
    classifierCalls,    \* detect_anomalies calls of this tick
    blocked,            \* the session waits in a call that never answers
    fn,                 \* one direct call of check_thresholds and of the
                        \* delta computation of detect_anomalies: its
                        \* arguments and results
    hc,                 \* one run_health_checks call of HealthChecker
    cm                  \* one continuous_monitoring call of HealthChecker

vars ==
    <<pc, now, end_time, slack_webhook_url, baseline_metrics, baselineLoad,
      responses, fetchFailed, metrics, threshold_alerts, anomaly_analysis,
      alerts, rollbackCalls, listing, switchRequests, switchReply, rbResult,
      interrupted, finalReport, classifierCalls, blocked, fn, hc, cm>>

\* the variables of the monitoring session
sessionVars ==
    <<pc, now, end_time, slack_webhook_url, baseline_metrics, baselineLoad,
      responses, fetchFailed, metrics, threshold_alerts, anomaly_analysis,
      alerts, rollbackCalls, listing, switchRequests, switchReply, rbResult,
      interrupted, finalReport, classifierCalls, blocked>>

\* the variables outside the monitoring session
otherVars == <<fn, hc, cm>>

NoListing == [ok |-> FALSE, arns |-> << >>]

\* no direct call of the functions is under way
FnIdle ==
    [at |-> "idle", items |-> << >>, baseline |-> BaselineDefault,
     alerts |-> << >>, error_change |-> [num |-> 0, den |-> 1],
     cpu_change |-> 0]

\* the session before DeploymentMonitor(...) is constructed
SessionInit ==
    /\ pc = "new"
    /\ now = 0
    /\ end_time = 0
    /\ slack_webhook_url \in BOOLEAN
    /\ baseline_metrics = BaselineDefault
    /\ baselineLoad = "none"
    /\ responses = NoResponses
    /\ fetchFailed = FALSE
    /\ metrics = NoMetrics
    /\ threshold_alerts = << >>
    /\ anomaly_analysis = NoAnalysis
    /\ alerts = << >>
    /\ rollbackCalls = 0
    /\ listing = NoListing
    /\ switchRequests = << >>
    /\ switchReply = "none"
    /\ rbResult = "none"
    /\ interrupted = FALSE
    /\ finalReport = FALSE
    /\ classifierCalls = 0
    /\ blocked = FALSE

\* no run_health_checks call is under way
HcIdle ==
    [at |-> "idle", results |-> << >>, overall_success |-> TRUE,
     report |-> [overall_success |-> TRUE, successful_checks |-> 0,
                 total_checks |-> 0,
                 avg_response_time |-> [num |-> 0, den |-> 1]]]

\* no continuous_monitoring call is under way
CmIdle ==
    [at |-> "idle", elapsed |-> 0, duration |-> 0, interval |-> 0,
     all_results |-> << >>, error |-> "none"]

Init ==
    /\ SessionInit
    /\ fn = FnIdle
    /\ hc = HcIdle
    /\ cm = CmIdle


\* ---- send_alert -------------------------------------------------------------
\* How one send_alert call can end: printed only (no webhook), posted, the
\* post raised (requests.post / raise_for_status), or the webhook never
\* answers and nothing bounds the wait.
Deliveries_AlwaysPost ==
    {"posted", "post_failed"}

Deliveries ==
    IF slack_webhook_url
       THEN {"posted", "post_failed"}
            \cup (IF PostHasTimeout THEN {} ELSE {"no_answer"})
       ELSE {"logged"}

Sent(source, severity, d) ==
    Append(alerts, [source |-> source, severity |-> severity, delivery |-> d])

\* the exception of a failed post leaves send_alert only if it is not caught
SendRaises(d) == d = "post_failed" /\ ~SendAlertCatches("Exception")

\* position of the loop after a send_alert call that ended as d, where
\* `normal` is the statement that follows the call
AfterSend(d, normal) ==
    IF d = "no_answer" THEN pc
    ELSE IF SendRaises(d) THEN OnTickError
    ELSE normal

\* ---- __init__ / get_baseline_metrics ----------------------------------------
Construct_Reloads ==
    /\ pc \in {"new", "loop_check"}
    /\ \/ \E r \in BaselineResponses :
             /\ baseline_metrics' = BaselineOf(r)
             /\ baselineLoad' = "ok"
       \/ /\ baseline_metrics' = BaselineDefault
          /\ baselineLoad' = "failed"
    /\ pc' = IF pc = "new" THEN "start" ELSE pc
    /\ UNCHANGED otherVars
    /\ UNCHANGED <<now, end_time, slack_webhook_url, responses, fetchFailed,
                   metrics, threshold_alerts, anomaly_analysis, alerts,
                   rollbackCalls, listing, switchRequests, switchReply,
                   rbResult, interrupted, finalReport, classifierCalls,
                   blocked>>

Construct ==
    /\ pc = "new"
    /\ \/ \E r \in BaselineResponses :
             /\ baseline_metrics' = BaselineOf(r)
             /\ baselineLoad' = "ok"
       \/ /\ baseline_metrics' = BaselineDefault
          /\ baselineLoad' = "failed"
    /\ pc' = "start"
    /\ UNCHANGED otherVars
    /\ UNCHANGED <<now, end_time, slack_webhook_url, responses, fetchFailed,
                   metrics, threshold_alerts, anomaly_analysis, alerts,
                   rollbackCalls, listing, switchRequests, switchReply,
                   rbResult, interrupted, finalReport, classifierCalls,
                   blocked>>

\* ---- monitor: start_time / end_time -----------------------------------------
MonitorStart ==
    /\ pc = "start"
    /\ \E duration_minutes \in 0..MaxDuration : end_time' = now + duration_minutes
    /\ pc' = "loop_check"
    /\ UNCHANGED otherVars
    /\ UNCHANGED <<now, slack_webhook_url, baseline_metrics, baselineLoad,
                   responses, fetchFailed, metrics, threshold_alerts,
                   anomaly_analysis, alerts, rollbackCalls, listing,
                   switchRequests, switchReply, rbResult, interrupted,
                   finalReport, classifierCalls, blocked>>

\* while datetime.utcnow() < end_time
LoopCheck ==
    /\ pc = "loop_check"
    /\ pc' = IF DeadlineOpen(now, end_time) THEN "fetch" ELSE "report"
    /\ UNCHANGED otherVars
    /\ UNCHANGED <<now, end_time, slack_webhook_url, baseline_metrics,
                   baselineLoad, responses, fetchFailed, metrics,
                   threshold_alerts, anomaly_analysis, alerts, rollbackCalls,
                   listing, switchRequests, switchReply, rbResult, interrupted,
                   finalReport, classifierCalls, blocked>>

\* metrics = self.get_current_metrics(); if not metrics: ...
Fetch ==
    /\ pc = "fetch"
    /\ \/ \E r \in CurrentResponses :
             /\ responses' = r
             /\ fetchFailed' = FALSE
             /\ metrics' = MetricsOf(r)
       \/ /\ responses' = NoResponses
          /\ fetchFailed' = TRUE
          /\ metrics' = NoMetrics
    /\ pc' = AfterFetch(metrics')
    /\ UNCHANGED otherVars
    /\ UNCHANGED <<now, end_time, slack_webhook_url, baseline_metrics,
                   baselineLoad, threshold_alerts, anomaly_analysis, alerts,
                   rollbackCalls, listing, switchRequests, switchReply,
                   rbResult, interrupted, finalReport, classifierCalls,
                   blocked>>

\* the locals of a tick are dead once the tick is over
EndTick ==
    /\ responses' = NoResponses
    /\ fetchFailed' = FALSE
    /\ metrics' = NoMetrics
    /\ threshold_alerts' = << >>
    /\ anomaly_analysis' = NoAnalysis
    /\ alerts' = << >>
    /\ classifierCalls' = 0

\* time.sleep(60); continue      (tick skipped)
SkipSleep ==
    /\ pc = "skip_sleep"
    /\ now' = now + 1
    /\ pc' = "loop_check"
    /\ EndTick
    /\ UNCHANGED otherVars
    /\ UNCHANGED <<end_time, slack_webhook_url, baseline_metrics, baselineLoad,
                   rollbackCalls, listing, switchRequests, switchReply,
                   rbResult, interrupted, finalReport, blocked>>

\* the statement after the threshold block: the classifier call of line 290
AfterThresholds_SkipClassifier == "pre_alert"

AfterThresholds == "classify"

\* threshold_alerts = self.check_thresholds(metrics); send_alert(.., "WARNING")
CheckThresholds ==
    /\ pc = "check_thresholds"
    /\ ~blocked
    /\ threshold_alerts' = check_thresholds(metrics)
    /\ IF threshold_alerts' # << >>
          THEN \E d \in Deliveries :
                  /\ alerts' = Sent("THRESHOLD", "WARNING", d)
                  /\ blocked' = (d = "no_answer")
                  /\ pc' = AfterSend(d, AfterThresholds)
          ELSE /\ alerts' = alerts
               /\ blocked' = blocked
               /\ pc' = AfterThresholds
    /\ UNCHANGED otherVars
    /\ UNCHANGED <<now, end_time, slack_webhook_url, baseline_metrics,
                   baselineLoad, responses, fetchFailed, metrics,
                   anomaly_analysis, rollbackCalls, listing, switchRequests,
                   switchReply, rbResult, interrupted, finalReport,
                   classifierCalls>>

\* anomaly_analysis = self.detect_anomalies(metrics): the completion parsed by
\* json.loads, or the call / the parse raised
Classify ==
    /\ pc = "classify"
    /\ classifierCalls' = classifierCalls + 1
    /\ \/ /\ anomaly_analysis' \in Verdicts \cup {ListAnalysis}
          /\ pc' = "evaluate"
       \/ IF DetectCatches("Exception")
             THEN /\ anomaly_analysis' = NoAnalysis
                  /\ pc' = "evaluate"
             ELSE /\ anomaly_analysis' = anomaly_analysis
                  /\ pc' = OnTickError
    /\ UNCHANGED otherVars
    /\ UNCHANGED <<now, end_time, slack_webhook_url, baseline_metrics,
                   baselineLoad, responses, fetchFailed, metrics,
                   threshold_alerts, alerts, rollbackCalls, listing,
                   switchRequests, switchReply, rbResult, interrupted,
                   finalReport, blocked>>

\* if severity == "CRITICAL" and rollback_recommended
RollbackDecision(a) ==
    /\ GetOr(a.severity, "MEDIUM") = "CRITICAL"
    /\ Truthy(GetOr(a.rollback_recommended, JFalse))

\* if anomaly_analysis and anomaly_analysis.get('anomaly_detected'): build the
\* message, send the anomaly alert, decide on the rollback
Evaluate ==
    /\ pc = "evaluate"
    /\ ~blocked
    /\ LET a == anomaly_analysis IN
       CASE a.kind = "None" ->
               /\ alerts' = alerts
               /\ blocked' = blocked
               /\ pc' = "sleep"
         [] a.kind = "list" ->            \* AttributeError: no .get
               /\ alerts' = alerts
               /\ blocked' = blocked
               /\ pc' = OnTickError
         [] a.kind = "dict" /\ ~Truthy(a.anomaly_detected) ->
               /\ alerts' = alerts
               /\ blocked' = blocked
               /\ pc' = "sleep"
         [] a.kind = "dict" /\ Truthy(a.anomaly_detected)
              /\ ~(Joinable(a.causes) /\ Joinable(a.recommendations)) ->
               /\ alerts' = alerts        \* TypeError in ', '.join
               /\ blocked' = blocked
               /\ pc' = OnTickError
         [] OTHER ->
               \E d \in Deliveries :
                  /\ alerts' = Sent("ANOMALY", GetOr(a.severity, "MEDIUM"), d)
                  /\ blocked' = (d = "no_answer")
                  /\ pc' = AfterSend(d, IF RollbackDecision(a)
                                           THEN "pre_alert" ELSE "sleep")
    /\ UNCHANGED otherVars
    /\ UNCHANGED <<now, end_time, slack_webhook_url, baseline_metrics,
                   baselineLoad, responses, fetchFailed, metrics,
                   threshold_alerts, anomaly_analysis, rollbackCalls, listing,
                   switchRequests, switchReply, rbResult, interrupted,
                   finalReport, classifierCalls>>

\* self.send_alert("CRITICAL ANOMALY DETECTED - Initiating automatic rollback")
PreAlert ==
    /\ pc = "pre_alert"
    /\ ~blocked
    /\ \E d \in Deliveries :
          /\ alerts' = Sent("PRE_ROLLBACK", "CRITICAL", d)
          /\ blocked' = (d = "no_answer")
          /\ pc' = AfterSend(d, "rollback")
    /\ UNCHANGED otherVars
    /\ UNCHANGED <<now, end_time, slack_webhook_url, baseline_metrics,
                   baselineLoad, responses, fetchFailed, metrics,
                   threshold_alerts, anomaly_analysis, rollbackCalls, listing,
                   switchRequests, switchReply, rbResult, interrupted,
                   finalReport, classifierCalls>>

\* a platform call of rollback_deployment raised
RollbackFailure ==
    IF RollbackCatches("Exception")
       THEN /\ rbResult' = "False"
            /\ pc' = "result_alert"
       ELSE /\ rbResult' = "raised"
            /\ pc' = OnTickError

\* rollback_deployment is entered: list_task_definitions and the length test
RollbackList ==
    /\ pc = "rollback"
    /\ rollbackCalls' = rollbackCalls + 1
    /\ \/ \E n \in 0..MaxRevisions :
             /\ listing' = [ok |-> TRUE, arns |-> Listing(n)]
             /\ IF PreviousTaskDef(Listing(n)) = << >>
                   THEN /\ rbResult' = "False"
                        /\ pc' = "result_alert"
                   ELSE /\ rbResult' = "running"
                        /\ pc' = "rb_switch"
       \/ /\ listing' = NoListing
          /\ RollbackFailure
    /\ UNCHANGED otherVars
    /\ UNCHANGED <<now, end_time, slack_webhook_url, baseline_metrics,
                   baselineLoad, responses, fetchFailed, metrics,
                   threshold_alerts, anomaly_analysis, alerts, switchRequests,
                   switchReply, interrupted, finalReport, classifierCalls,
                   blocked>>

\* ecs.update_service(taskDefinition=previous_task_def): the request leaves
RollbackSwitch ==
    /\ pc = "rb_switch"
    /\ switchRequests' = Append(switchRequests, PreviousTaskDef(listing.arns)[1])
    /\ pc' = "rb_switch_wait"
    /\ UNCHANGED otherVars
    /\ UNCHANGED <<now, end_time, slack_webhook_url, baseline_metrics,
                   baselineLoad, responses, fetchFailed, metrics,
                   threshold_alerts, anomaly_analysis, alerts, rollbackCalls,
                   listing, switchReply, rbResult, interrupted, finalReport,
                   classifierCalls, blocked>>

\* ecs.update_service answers: accepted (return True) or an error
RollbackReply ==
    /\ pc = "rb_switch_wait"
    /\ \/ /\ switchReply' = "ok"
          /\ rbResult' = "True"
          /\ pc' = "result_alert"
       \/ /\ switchReply' = "error"
          /\ RollbackFailure
    /\ UNCHANGED otherVars
    /\ UNCHANGED <<now, end_time, slack_webhook_url, baseline_metrics,
                   baselineLoad, responses, fetchFailed, metrics,
                   threshold_alerts, anomaly_analysis, alerts, rollbackCalls,
                   listing, switchRequests, interrupted, finalReport,
                   classifierCalls, blocked>>

\* if self.rollback_deployment(): send_alert(success) else: send_alert(failure)
\* then break
ResultAlert ==
    /\ pc = "result_alert"
    /\ ~blocked
    /\ \E d \in Deliveries :
          /\ alerts' = IF rbResult = "True"
                          THEN Sent("ROLLBACK_OK", "INFO", d)
                          ELSE Sent("ROLLBACK_FAILED", "CRITICAL", d)
          /\ blocked' = (d = "no_answer")
          /\ pc' = AfterSend(d, AfterRollback)
    /\ UNCHANGED otherVars
    /\ UNCHANGED <<now, end_time, slack_webhook_url, baseline_metrics,
                   baselineLoad, responses, fetchFailed, metrics,
                   threshold_alerts, anomaly_analysis, rollbackCalls, listing,
                   switchRequests, switchReply, rbResult, interrupted,
                   finalReport, classifierCalls>>

\* time.sleep(60)  # Check every minute
Sleep ==
    /\ pc = "sleep"
    /\ now' = now + 1
    /\ pc' = "loop_check"
    /\ EndTick
    /\ UNCHANGED otherVars
    /\ UNCHANGED <<end_time, slack_webhook_url, baseline_metrics, baselineLoad,
                   rollbackCalls, listing, switchRequests, switchReply,
                   rbResult, interrupted, finalReport, blocked>>

\* except Exception as e: print(...); time.sleep(60)
ErrSleep ==
    /\ pc = "err_sleep"
    /\ now' = now + 1
    /\ pc' = "loop_check"
    /\ EndTick
    /\ UNCHANGED otherVars
    /\ UNCHANGED <<end_time, slack_webhook_url, baseline_metrics, baselineLoad,
                   rollbackCalls, listing, switchRequests, switchReply,
                   rbResult, interrupted, finalReport, blocked>>

\* positions inside the try block of the loop body
InTry ==
    {"fetch", "skip_sleep", "check_thresholds", "classify", "evaluate",
     "pre_alert", "rollback", "rb_switch", "rb_switch_wait", "result_alert",
     "sleep"}

\* positions inside rollback_deployment once it has been entered
InRollback == {"rb_switch", "rb_switch_wait"}

\* positions of the loop outside its try block: the while test and the sleep
\* of the `except Exception` handler
OutsideTry == {"loop_check", "err_sleep"}

\* KeyboardInterrupt inside the try block: no `except Exception` catches it,
\* the loop's `except KeyboardInterrupt` prints and breaks.  It also ends the
\* wait of a call that never answers.
InterruptInTry ==
    /\ pc \in InTry
    /\ interrupted' = TRUE
    /\ blocked' = FALSE
    /\ rbResult' = IF pc \in InRollback THEN "interrupted" ELSE rbResult
    /\ pc' = AfterInterrupt
    /\ UNCHANGED otherVars
    /\ UNCHANGED <<now, end_time, slack_webhook_url, baseline_metrics,
                   baselineLoad, responses, fetchFailed, metrics,
                   threshold_alerts, anomaly_analysis, alerts, rollbackCalls,
                   listing, switchRequests, switchReply, finalReport,
                   classifierCalls>>

\* KeyboardInterrupt outside the try block leaves monitor() as an exception
InterruptOutsideTry ==
    /\ pc \in OutsideTry
    /\ interrupted' = TRUE
    /\ pc' = "aborted"
    /\ UNCHANGED otherVars
    /\ UNCHANGED <<now, end_time, slack_webhook_url, baseline_metrics,
                   baselineLoad, responses, fetchFailed, metrics,
                   threshold_alerts, anomaly_analysis, alerts, rollbackCalls,
                   listing, switchRequests, switchReply, rbResult, finalReport,
                   classifierCalls, blocked>>

\* print("Monitoring completed")
Report ==
    /\ pc = "report"
    /\ finalReport' = TRUE
    /\ pc' = "done"
    /\ UNCHANGED otherVars
    /\ UNCHANGED <<now, end_time, slack_webhook_url, baseline_metrics,
                   baselineLoad, responses, fetchFailed, metrics,
                   threshold_alerts, anomaly_analysis, alerts, rollbackCalls,
                   listing, switchRequests, switchReply, rbResult, interrupted,
                   classifierCalls, blocked>>

\* the steps of the program, without the operator's interrupts
Program ==
    \/ Construct
    \/ MonitorStart
    \/ LoopCheck
    \/ Fetch
    \/ SkipSleep
    \/ CheckThresholds
    \/ Classify
    \/ Evaluate
    \/ PreAlert
    \/ RollbackList
    \/ RollbackSwitch
    \/ RollbackReply
    \/ ResultAlert
    \/ Sleep
    \/ ErrSleep
    \/ Report

Next ==
    \/ Program
    \/ InterruptInTry
    \/ InterruptOutsideTry

Spec == Init /\ [][Next]_vars

\* The interpreter keeps executing the program; nothing obliges the operator
\* to press Ctrl-C.
FairSpec == Spec /\ WF_vars(Program)

\* ---- direct calls of check_thresholds and of the delta computation ----------
\* How far the values tried lie around each limit.
Spread == 1
\* Largest baseline error count tried.
MaxBaselineErrors == 2

Around(limit) == (limit - Spread)..(limit + Spread)

\* the keys of the dict get_current_metrics returns, in its insertion order
MetricKeys == <<"error_rate", "avg_latency", "cpu_usage", "memory_usage">>

Permutations4 ==
    {q \in [1..4 -> 1..4] : \A i, j \in 1..4 : i # j => q[i] # q[j]}

\* a snapshot dict as the list of its (key, value) items, in any insertion
\* order
SnapshotItems ==
    {[i \in 1..4 |-> [key |-> MetricKeys[q[i]], val |-> v[q[i]]]] :
        q \in Permutations4,
        v \in {<<e, l, c, m>> :
                  e \in Around(thresholds.error_rate),
                  l \in Around(thresholds.latency) \cup Around(thresholds.response_time),
                  c \in Around(thresholds.cpu_usage),
                  m \in Around(thresholds.memory_usage)}}

\* d[key]: the value stored under the key, wherever it sits in the dict
Lookup(items, key) ==
    items[CHOOSE i \in 1..Len(items) : items[i].key = key].val

\* the dict as check_thresholds and detect_anomalies read it
DictOf(items) ==
    [some         |-> TRUE,
     error_rate   |-> Lookup(items, "error_rate"),
     avg_latency  |-> Lookup(items, "avg_latency"),
     cpu_usage    |-> Lookup(items, "cpu_usage"),
     memory_usage |-> Lookup(items, "memory_usage")]

\* detect_anomalies: max(self.baseline_metrics['error_rate'], 1)
ErrorChangeDivisor_NoFloor(b) == b

ErrorChangeDivisor(b) == IF b > 1 THEN b ELSE 1

\* detect_anomalies: error_change, kept as the fraction num / den
ErrorChange(current, baseline) ==
    [num |-> (current.error_rate - baseline.error_rate) * 100,
     den |-> ErrorChangeDivisor(baseline.error_rate)]

\* detect_anomalies: cpu_change
CpuChange(current, baseline) == current.cpu_usage - baseline.cpu_usage

FnBaselines == [error_rate : 0..MaxBaselineErrors, cpu_usage : {0, 20}]

FnInit ==
    /\ SessionInit
    /\ slack_webhook_url = FALSE
    /\ \E it \in SnapshotItems, b \in FnBaselines :
          fn = [FnIdle EXCEPT !.at = "input", !.items = it, !.baseline = b]
    /\ hc = HcIdle
    /\ cm = CmIdle

\* alerts = check_thresholds(metrics)
FnCheckThresholds ==
    /\ fn.at = "input"
    /\ fn' = [fn EXCEPT !.at = "checked",
                        !.alerts = check_thresholds(DictOf(fn.items))]
    /\ UNCHANGED <<sessionVars, hc, cm>>

\* error_change and cpu_change of detect_anomalies
FnDeltas ==
    /\ fn.at = "checked"
    /\ fn' = [fn EXCEPT !.at = "computed",
                        !.error_change = ErrorChange(DictOf(fn.items), fn.baseline),
                        !.cpu_change = CpuChange(DictOf(fn.items), fn.baseline)]
    /\ UNCHANGED <<sessionVars, hc, cm>>

FnNext ==
    \/ FnCheckThresholds
    \/ FnDeltas

FnSpec == FnInit /\ [][FnNext]_vars

\* ---- health_check.py: HealthChecker ------------------------------------------
\* HealthChecker(base_url): the timeout parameter keeps its default
timeout == 10

\* self.endpoints
endpoints == <<"/", "/health", "/api/health">>

\* What requests.get can do for one endpoint: answer with a status code after
\* some milliseconds, or raise Timeout, ConnectionError or another exception.
StatusCodes == {199, 200, 399, 400}

ResponseTimes == {100, 200}

Failures == {"Timeout", "ConnectionError", "Exception"}

Answer(code, ms) == [kind |-> "response", status_code |-> code, response_time |-> ms]

Failure(kind) == [kind |-> kind, status_code |-> 0, response_time |-> 0]

Outcomes ==
    {Answer(code, ms) : code \in StatusCodes, ms \in ResponseTimes}
    \cup {Failure(k) : k \in Failures}

\* 200 <= response.status_code < 400
IsSuccess_Inclusive(code) == 200 <= code /\ code <= 400

IsSuccess(code) == 200 <= code /\ code < 400

\* check_endpoint: the dict returned for each way the request can end;
\* `answered` and `timed` are FALSE where the dict holds None
check_endpoint(endpoint, o) ==
    CASE o.kind = "response" ->
            [endpoint |-> endpoint, answered |-> TRUE,
             status_code |-> o.status_code, timed |-> TRUE,
             response_time |-> o.response_time,
             success |-> IsSuccess(o.status_code), error |-> "none"]
      [] o.kind = "Timeout" ->
            [endpoint |-> endpoint, answered |-> FALSE, status_code |-> 0,
             timed |-> TRUE, response_time |-> timeout * 1000,
             success |-> FALSE, error |-> "Timeout"]
      [] o.kind = "ConnectionError" ->
            [endpoint |-> endpoint, answered |-> FALSE, status_code |-> 0,
             timed |-> FALSE, response_time |-> 0,
             success |-> FALSE, error |-> "Connection Error"]
      [] OTHER ->
            [endpoint |-> endpoint, answered |-> FALSE, status_code |-> 0,
             timed |-> FALSE, response_time |-> 0,
             success |-> FALSE, error |-> "str(e)"]

\* `if r['response_time']`: None and 0 are falsy
TruthyTime(r) == r.timed /\ r.response_time # 0

RECURSIVE SumTimes(_)
\* sum(r['response_time'] for r in results if r['response_time'])
SumTimes(results) ==
    IF results = << >> THEN 0
    ELSE (IF TruthyTime(Head(results)) THEN Head(results).response_time ELSE 0)
         + SumTimes(Tail(results))

\* sum(1 for r in results if r['success'])
SuccessfulChecks(results) ==
    Cardinality({i \in 1..Len(results) : results[i].success})

\* max(1, successful_checks)
AtLeastOne(n) == IF n > 1 THEN n ELSE 1

\* the dict run_health_checks returns; the quotient is kept as a pair
HealthReport(results, overall_success) ==
    [overall_success   |-> overall_success,
     successful_checks |-> SuccessfulChecks(results),
     total_checks      |-> Len(results),
     avg_response_time |-> [num |-> SumTimes(results),
                            den |-> AtLeastOne(SuccessfulChecks(results))]]

\* the loop body's flag: overall_success = False on a failed result
NoteResult(overall_success, result) ==
    IF result.success THEN overall_success ELSE FALSE

HcInit ==
    /\ SessionInit
    /\ slack_webhook_url = FALSE
    /\ fn = FnIdle
    /\ cm = CmIdle
    /\ hc = [HcIdle EXCEPT !.at = "loop"]

\* for endpoint in self.endpoints: one iteration
HcCheckEndpoint ==
    /\ hc.at = "loop"
    /\ Len(hc.results) < Len(endpoints)
    /\ \E o \in Outcomes :
          LET result == check_endpoint(endpoints[Len(hc.results) + 1], o) IN
          hc' = [hc EXCEPT !.results = Append(hc.results, result),
                           !.overall_success = NoteResult(hc.overall_success, result)]
    /\ UNCHANGED <<sessionVars, fn, cm>>

\* the metrics after the loop and the return
HcSummary ==
    /\ hc.at = "loop"
    /\ Len(hc.results) = Len(endpoints)
    /\ hc' = [hc EXCEPT !.at = "returned",
                        !.report = HealthReport(hc.results, hc.overall_success)]
    /\ UNCHANGED <<sessionVars, fn, cm>>

HcNext ==
    \/ HcCheckEndpoint
    \/ HcSummary

HealthSpec == HcInit /\ [][HcNext]_vars

\* ---- health_check.py: continuous_monitoring ----------------------------------
MaxSeconds == 2
MaxInterval == 1

\* the endpoint outcomes tried in a monitored run
RunOutcomes == {Answer(200, 100), Failure("Timeout")}

RECURSIVE ResultsOf(_, _)
\* the results list of a whole run whose requests end as `os`
ResultsOf(os, done) ==
    IF Len(done) = Len(os) THEN done
    ELSE ResultsOf(os, Append(done, check_endpoint(endpoints[Len(done) + 1],
                                                   os[Len(done) + 1])))

RECURSIVE OverallOf(_)
OverallOf(results) ==
    IF results = << >> THEN TRUE
    ELSE NoteResult(OverallOf(SubSeq(results, 1, Len(results) - 1)),
                    results[Len(results)])

\* run_health_checks as one step
run_health_checks(os) ==
    HealthReport(ResultsOf(os, << >>), OverallOf(ResultsOf(os, << >>)))

CmInit ==
    /\ SessionInit
    /\ slack_webhook_url = FALSE
    /\ fn = FnIdle
    /\ hc = HcIdle
    /\ \E interval \in 0..MaxInterval, duration \in 0..MaxSeconds :
          cm = [CmIdle EXCEPT !.at = "loop_test", !.interval = interval,
                              !.duration = duration]

\* while time.time() - start_time < duration
CmLoopTest ==
    /\ cm.at = "loop_test"
    /\ cm' = [cm EXCEPT !.at = IF cm.elapsed < cm.duration THEN "run" ELSE "summary"]
    /\ UNCHANGED <<sessionVars, fn, hc>>

\* result = self.run_health_checks(); all_results.append(result); the run
\* takes a second
CmRun ==
    /\ cm.at = "run"
    /\ \E os \in [1..Len(endpoints) -> RunOutcomes] :
          cm' = [cm EXCEPT !.all_results = Append(cm.all_results, run_health_checks(os)),
                           !.elapsed = cm.elapsed + 1,
                           !.at = "after_run"]
    /\ UNCHANGED <<sessionVars, fn, hc>>

\* if time.time() - start_time < duration: time.sleep(interval)
CmSleep ==
    /\ cm.at = "after_run"
    /\ cm' = [cm EXCEPT !.at = "loop_test",
                        !.elapsed = IF cm.elapsed < cm.duration
                                       THEN cm.elapsed + cm.interval
                                       ELSE cm.elapsed]
    /\ UNCHANGED <<sessionVars, fn, hc>>

\* KeyboardInterrupt inside the try block: printed, then the summary
CmInterrupt ==
    /\ cm.at \in {"loop_test", "run", "after_run"}
    /\ cm' = [cm EXCEPT !.at = "summary"]
    /\ UNCHANGED <<sessionVars, fn, hc>>

\* total_checks = len(all_results); the two averages divide by it
CmSummary ==
    /\ cm.at = "summary"
    /\ cm' = IF Len(cm.all_results) = 0
                THEN [cm EXCEPT !.at = "raised", !.error = "ZeroDivisionError"]
                ELSE [cm EXCEPT !.at = "returned"]
    /\ UNCHANGED <<sessionVars, fn, hc>>

\* KeyboardInterrupt after the try block leaves the method
CmInterruptSummary ==
    /\ cm.at = "summary"
    /\ cm' = [cm EXCEPT !.at = "raised", !.error = "KeyboardInterrupt"]
    /\ UNCHANGED <<sessionVars, fn, hc>>

CmNext ==
    \/ CmLoopTest
    \/ CmRun
    \/ CmSleep
    \/ CmInterrupt
    \/ CmSummary
    \/ CmInterruptSummary

ContSpec == CmInit /\ [][CmNext]_vars

\* ---- properties ---------------------------------------------------------------
Finished == pc \in {"report", "done"}

AfterRollbackCall == {"rb_switch", "rb_switch_wait", "result_alert", "report", "done"}

HasAlert(source, severity) ==
    \E i \in 1..Len(alerts) :
        alerts[i].source = source /\ alerts[i].severity = severity

ResultAlerts ==
    {i \in 1..Len(alerts) : alerts[i].source \in {"ROLLBACK_OK", "ROLLBACK_FAILED"}}

\* a verdict that says, in the types of the verdict contract: detected,
\* CRITICAL, rollback recommended
TrueCriticalVerdict(a) ==
    /\ a.kind = "dict"
    /\ a.anomaly_detected = JTrue
    /\ a.severity = "CRITICAL"
    /\ a.rollback_recommended = JTrue

\* C1: in one session rollback_deployment is invoked at most once, and once it
\* has been invoked the loop is in the rollback branch or past the loop: it
\* never comes back to a sleep, a deadline test, a fetch or an evaluation.
C1_RollbackAtMostOnce ==
    /\ rollbackCalls <= 1
    /\ rollbackCalls >= 1 => pc \in AfterRollbackCall

C1_Witness == rollbackCalls = 1 /\ pc = "done" /\ now < end_time

\* C2: rollback_deployment is invoked in a tick only if the classifier's verdict
\* of that tick has anomaly_detected = true, severity = CRITICAL and
\* rollback_recommended = true.
C2_RollbackOnlyOnCriticalVerdict ==
    rollbackCalls >= 1 => TrueCriticalVerdict(anomaly_analysis)

\* C3: a tick whose verdict is detected, CRITICAL and rollback recommended never
\* reaches the end-of-tick sleep (the one of the loop body or the one of the
\* exception handler) and so never leads to another fetch without a rollback,
\* whatever causes and recommendations contain.
C3_CriticalVerdictRollsBack ==
    pc \in {"sleep", "err_sleep"} => ~TrueCriticalVerdict(anomaly_analysis)

\* C4: a session that has left the loop after invoking rollback_deployment has
\* dispatched the pre-rollback alert and then exactly one result alert, which is
\* the last alert and is the success alert exactly when the rollback returned
\* True.
C4_RollingBackOrder ==
    (Finished /\ rollbackCalls >= 1) =>
        /\ rbResult \in {"True", "False"}
        /\ Cardinality(ResultAlerts) = 1
        /\ Len(alerts) >= 2
        /\ alerts[Len(alerts) - 1].source = "PRE_ROLLBACK"
        /\ alerts[Len(alerts)].source =
              (IF rbResult = "True" THEN "ROLLBACK_OK" ELSE "ROLLBACK_FAILED")

\* C5: when the platform lists fewer than two revisions, rollback_deployment
\* returns False and no update_service request is ever issued.
C5_NoPriorVersion ==
    (listing.ok /\ Len(listing.arns) < 2) =>
        /\ rbResult = "False"
        /\ switchRequests = << >>
        /\ switchReply = "none"

C5_Witness ==
    /\ listing.ok
    /\ Len(listing.arns) = 1
    /\ rbResult = "False"
    /\ pc = "done"

\* C6: when the platform lists two or more revisions, at most one update_service
\* request is issued, its target is the second element of the listing, the
\* function returns only after issuing it, and it returns True exactly when the
\* platform accepted the request.
C6_SwitchToSecondNewest ==
    (listing.ok /\ Len(listing.arns) >= 2) =>
        /\ Len(switchRequests) <= 1
        /\ \A i \in 1..Len(switchRequests) :
              /\ switchRequests[i] = listing.arns[2]
              /\ switchRequests[i] = Len(listing.arns) - 1
        /\ rbResult \in {"True", "False"} => Len(switchRequests) = 1
        /\ rbResult = "True" <=> switchReply = "ok"

C6_Witness ==
    /\ listing.ok
    /\ Len(listing.arns) = MaxRevisions
    /\ switchRequests = <<MaxRevisions - 1>>
    /\ rbResult = "True"
    /\ pc = "done"

\* C7: when list_task_definitions or update_service fails, rollback_deployment
\* returns False: the error neither leaves the function as an exception nor
\* turns into True.
C7_PlatformFailureReturnsFalse ==
    ((rollbackCalls >= 1 /\ ~listing.ok) \/ switchReply = "error") =>
        rbResult = "False"

C7_Witness ==
    /\ switchReply = "error"
    /\ rbResult = "False"
    /\ HasAlert("ROLLBACK_FAILED", "CRITICAL")
    /\ pc = "done"

\* C8: a session that ends after an invocation of rollback_deployment that did
\* not return True has dispatched the CRITICAL "manual intervention required"
\* alert.
C8_FailureEscalated ==
    (pc = "done" /\ rollbackCalls >= 1 /\ rbResult # "True") =>
        HasAlert("ROLLBACK_FAILED", "CRITICAL")

\* C9: a session never leaves the loop with an update_service request issued
\* whose answer was not obtained and reported by a result alert.
C9_InterruptWaitsForRollback ==
    (Finished /\ switchRequests # << >>) =>
        /\ switchReply # "none"
        /\ ResultAlerts # {}

\* C10: a snapshot is evaluated (thresholds, classifier) only when every one of
\* the four metrics had a datapoint in the tick's window.
C10_MissingDatapointsSkipTick ==
    metrics.some =>
        /\ responses.error_rate # << >>
        /\ responses.avg_latency # << >>
        /\ responses.cpu_usage # << >>
        /\ responses.memory_usage # << >>

Ended == {"done", "aborted"}

HasAnomalyAlert == \E i \in 1..Len(alerts) : alerts[i].source = "ANOMALY"

\* the closed sets of the verdict contract
Severities == {"LOW", "MEDIUM", "HIGH", "CRITICAL"}

IsBoolean(v) == v \in {JTrue, JFalse}

\* C11: when the baseline fetch failed at construction, the session never gets
\* into the loop body: no tick fetches, evaluates, classifies or rolls back.
C11_BaselineFailureFailsFast ==
    baselineLoad = "failed" => pc \notin InTry

\* C12: a tick whose get_current_metrics returned None sends no alert, leaves
\* the threshold and classifier results untouched, calls neither the
\* classifier nor rollback_deployment, and (unless the operator interrupts)
\* goes from its 60 s sleep back to the loop test.
C12_UnavailableTickSkipped ==
    [][/\ fetchFailed' =>
             /\ alerts' = << >>
             /\ threshold_alerts' = << >>
             /\ classifierCalls' = 0
             /\ rollbackCalls' = 0
             /\ pc' \in {"skip_sleep", "report", "done"}
             /\ pc' # "skip_sleep" => interrupted'
       /\ (pc = "skip_sleep" /\ ~interrupted') =>
             /\ pc' = "loop_check"
             /\ now' = now + 1
             /\ rollbackCalls' = 0]_vars

C12_Witness == fetchFailed /\ pc = "skip_sleep" /\ now + 1 < end_time

\* C13: an anomaly alert or a rollback happens only on a verdict whose
\* severity is one of LOW/MEDIUM/HIGH/CRITICAL and whose anomaly_detected and
\* rollback_recommended are booleans.
C13_MalformedVerdictRejected ==
    (HasAnomalyAlert \/ rollbackCalls >= 1) =>
        /\ anomaly_analysis.severity \in Severities
        /\ IsBoolean(anomaly_analysis.anomaly_detected)
        /\ IsBoolean(anomaly_analysis.rollback_recommended)

\* C14: in a tick whose classifier call failed (detect_anomalies returned
\* None) there is no anomaly alert and no rollback, the threshold alert of the
\* tick was sent exactly when a threshold was exceeded, and the tick goes on to
\* its sleep (it ends earlier only by an operator interrupt).
C14_ClassifierFailureNoAnomalySignal ==
    (classifierCalls >= 1 /\ anomaly_analysis.kind = "None") =>
        /\ ~HasAnomalyAlert
        /\ rollbackCalls = 0
        /\ pc \in {"evaluate", "sleep", "report", "done"}
        /\ pc \in {"report", "done"} => interrupted
        /\ alerts = IF check_thresholds(metrics) # << >>
                       THEN <<[source |-> "THRESHOLD", severity |-> "WARNING",
                               delivery |-> alerts[1].delivery]>>
                       ELSE << >>

C14_Witness ==
    /\ classifierCalls = 1
    /\ anomaly_analysis.kind = "None"
    /\ pc = "sleep"
    /\ Len(alerts) = 1
    /\ now + 1 < end_time

\* C15: the loop is left only by the deadline test, by the break after a
\* rollback or by an operator interrupt, never by an error of a tick; every
\* sleep that ends a tick (normal, skipped, or after an exception) returns to
\* the loop test, which starts another tick while the deadline has not passed.
C15_TickErrorsContained ==
    [][/\ (pc \notin Ended \cup {"report"} /\ pc' \in Ended \cup {"report"}) =>
             \/ interrupted' /\ ~interrupted
             \/ pc = "loop_check" /\ now >= end_time
             \/ pc = "result_alert"
       /\ (pc \in {"sleep", "skip_sleep", "err_sleep"} /\ ~interrupted') =>
             pc' = "loop_check"
       /\ (pc = "loop_check" /\ now < end_time /\ ~interrupted') =>
             pc' = "fetch"]_vars

C15_Witness ==
    /\ pc = "err_sleep"
    /\ \E i \in 1..Len(alerts) : alerts[i].delivery = "post_failed"
    /\ now + 1 < end_time

\* C16: a send_alert call whose post failed is followed by the same statement
\* as one whose post succeeded (never by the exception handler), and a session
\* that ended after a rollback without an interrupt has sent the result alert
\* whatever the deliveries did.
C16_DeliveryFailureContained ==
    /\ [][(/\ Len(alerts') = Len(alerts) + 1
           /\ alerts'[Len(alerts')].delivery # "no_answer") =>
             pc' = CASE alerts'[Len(alerts')].source = "THRESHOLD" -> "classify"
                     [] alerts'[Len(alerts')].source = "ANOMALY" ->
                          IF anomaly_analysis.severity = "CRITICAL"
                             /\ Truthy(anomaly_analysis.rollback_recommended)
                             THEN "pre_alert" ELSE "sleep"
                     [] alerts'[Len(alerts')].source = "PRE_ROLLBACK" -> "rollback"
                     [] OTHER -> "report"]_vars
    /\ []((pc = "done" /\ rollbackCalls >= 1 /\ ~interrupted) => ResultAlerts # {})

C16_Witness ==
    /\ pc = "done"
    /\ ~interrupted
    /\ rollbackCalls = 1
    /\ ResultAlerts # {}
    /\ \A i \in 1..Len(alerts) : alerts[i].delivery = "post_failed"

\* C17: a session that has ended has printed "Monitoring completed".
C17_AlwaysFinalReport ==
    pc \in Ended => finalReport

\* C18: the session eventually ends even when a collaborator does not answer
\* one of its calls (the call is given up after a bounded wait).
C18_UnresponsiveCallStillEnds ==
    <>(pc \in Ended)

\* C19: no tick starts at or after the deadline, nothing happens after the
\* session has ended, and when every call returns the session ends.
C19_SessionBounded ==
    /\ [](pc = "fetch" => now < end_time)
    /\ [][pc \notin Ended]_vars
    /\ <>(pc \in Ended \/ blocked)

C19_Witness ==
    /\ pc = "done"
    /\ now >= end_time
    /\ now > 0
    /\ ~interrupted
    /\ rollbackCalls = 0

\* C20: once a KeyboardInterrupt has been delivered the session is past the
\* loop: no further fetch, classifier call or rollback invocation follows.
C20_InterruptStopsTicks ==
    /\ [](interrupted => pc \in Ended \cup {"report"})
    /\ [][interrupted =>
             /\ classifierCalls' = classifierCalls
             /\ rollbackCalls' = rollbackCalls
             /\ responses' = responses
             /\ switchRequests' = switchRequests]_vars

C20_Witness ==
    /\ interrupted
    /\ pc = "done"
    /\ metrics.some
    /\ now < end_time

\* ---- properties of check_thresholds and of the deltas -------------------------
Range(seq) == {seq[i] : i \in 1..Len(seq)}

FnChecked == fn.at \in {"checked", "computed"}

\* the alert text that names each field of the snapshot
AlertNameOf ==
    [error_rate   |-> "High error rate",
     cpu_usage    |-> "High CPU usage",
     memory_usage |-> "High memory usage",
     avg_latency  |-> "High response time"]

\* the limit the configuration holds for each field of the snapshot
OwnLimit ==
    [error_rate   |-> thresholds.error_rate,
     cpu_usage    |-> thresholds.cpu_usage,
     memory_usage |-> thresholds.memory_usage,
     avg_latency  |-> thresholds.latency]

\* the fields of a snapshot that lie strictly above their own limit
Exceeding(items) ==
    {k \in Range(MetricKeys) : Lookup(items, k) > OwnLimit[k]}

\* the fixed order of the checks
CheckOrder ==
    <<"High error rate", "High CPU usage", "High memory usage",
      "High response time">>

Alerted(name) == name \in Range(fn.alerts)

\* the same snapshot with its items in the order of MetricKeys
Canonical(items) ==
    [i \in 1..4 |-> [key |-> MetricKeys[i], val |-> Lookup(items, MetricKeys[i])]]

\* C21: check_thresholds returns an alert for a field exactly when the field's
\* value is strictly above the field's own limit, and as many alerts as there
\* are such fields.
C21_AlertIffStrictlyAbove ==
    FnChecked =>
        /\ \A k \in Range(MetricKeys) :
              Alerted(AlertNameOf[k]) <=> k \in Exceeding(fn.items)
        /\ Len(fn.alerts) = Cardinality(Exceeding(fn.items))

\* C22: when exactly one field is above its own limit, check_thresholds
\* returns exactly one alert and it names that field.
C22_OneExceededOneAlert ==
    (FnChecked /\ Cardinality(Exceeding(fn.items)) = 1) =>
        \E k \in Exceeding(fn.items) : fn.alerts = <<AlertNameOf[k]>>

\* C23: the alerts come in the order error rate, CPU, memory, response time,
\* each at most once, and are the alerts the same values give when the dict
\* holds them in another order.
C23_FixedCheckOrder ==
    FnChecked =>
        /\ fn.alerts = SelectSeq(CheckOrder, Alerted)
        /\ fn.alerts = check_thresholds(DictOf(Canonical(fn.items)))

C23_Witness ==
    /\ fn.at = "checked"
    /\ Len(fn.alerts) = 4
    /\ fn.items[1].key = "memory_usage"
    /\ fn.items[4].key = "error_rate"

\* C27: the error-rate change is (current - baseline) * 100 over a divisor
\* that is the baseline error rate floored at 1, so never 0; the CPU change is
\* the plain difference current - baseline.
C27_DeltasFlooredDivisor ==
    fn.at = "computed" =>
        /\ fn.error_change.den >= 1
        /\ fn.error_change.den >= fn.baseline.error_rate
        /\ fn.error_change.den \in {1, fn.baseline.error_rate}
        /\ fn.error_change.num =
              (Lookup(fn.items, "error_rate") - fn.baseline.error_rate) * 100
        /\ fn.cpu_change + fn.baseline.cpu_usage = Lookup(fn.items, "cpu_usage")

C27_Witness ==
    /\ fn.at = "computed"
    /\ fn.baseline.error_rate = 0
    /\ fn.error_change = [num |-> 600, den |-> 1]
    /\ fn.cpu_change = 61

\* ---- properties of the tick order, of send_alert and of the baseline ----------
\* positions from the rollback decision's positive outcome to the result alert
RollbackPhase ==
    {"pre_alert", "rollback", "rb_switch", "rb_switch_wait", "result_alert"}

\* send_alert has returned for the alert (posted, post failed and caught, or
\* printed only)
Dispatched(a) == a.delivery \in {"posted", "post_failed", "logged"}

\* C24: when the rollback decision of a tick has been made (and whenever
\* rollback_deployment runs), the threshold evaluation and the one classifier
\* call of the tick are complete, the threshold alert (if any limit was
\* exceeded) and the anomaly alert have been dispatched, in this order, and no
\* alert of the tick is still being sent.
C24_AlertsBeforeRollbackDecision ==
    pc \in RollbackPhase =>
        /\ classifierCalls = 1
        /\ anomaly_analysis.kind = "dict"
        /\ threshold_alerts = check_thresholds(metrics)
        /\ \A i \in 1..Len(alerts) :
              alerts[i].source \in {"THRESHOLD", "ANOMALY"} => Dispatched(alerts[i])
        /\ pc \in {"rollback"} \cup InRollback =>
              /\ ~blocked
              /\ \A i \in 1..Len(alerts) : Dispatched(alerts[i])
        /\ IF threshold_alerts # << >>
              THEN /\ Len(alerts) >= 2
                   /\ alerts[1].source = "THRESHOLD"
                   /\ alerts[2].source = "ANOMALY"
              ELSE /\ Len(alerts) >= 1
                   /\ alerts[1].source = "ANOMALY"

C24_Witness ==
    /\ pc = "rollback"
    /\ rollbackCalls = 0
    /\ Len(alerts) = 3
    /\ alerts[1].source = "THRESHOLD"
    /\ alerts[2].source = "ANOMALY"
    /\ alerts[3].source = "PRE_ROLLBACK"

\* C25: without a webhook every alert of the session is only printed: none is
\* posted, none fails to post, none waits for an answer.
C25_NoWebhookOnlyLogs ==
    ~slack_webhook_url =>
        /\ \A i \in 1..Len(alerts) : alerts[i].delivery = "logged"
        /\ ~blocked

C25_Witness ==
    /\ ~slack_webhook_url
    /\ pc = "done"
    /\ Len(alerts) = 4
    /\ {"WARNING", "CRITICAL", "INFO"} \subseteq
          {alerts[i].severity : i \in 1..Len(alerts)}
    /\ \A i \in 1..Len(alerts) : alerts[i].delivery = "logged"

\* C26: the baseline is loaded by the one step that constructs the monitor and
\* no later step of the session, whatever the tick's outcome, changes it.
C26_BaselineReadOnly ==
    [][IF pc = "new"
          THEN baselineLoad = "none" /\ baselineLoad' # "none"
          ELSE UNCHANGED <<baseline_metrics, baselineLoad>>]_vars

C26_Witness ==
    /\ pc = "done"
    /\ rollbackCalls = 1
    /\ baselineLoad = "ok"
    /\ baseline_metrics = [error_rate |-> 2, cpu_usage |-> 20]

\* ---- properties of HealthChecker ----------------------------------------------
\* the largest response_time recorded among the results (0 when none is)
MaxRecorded(results) ==
    LET times == {results[i].response_time :
                     i \in {j \in 1..Len(results) : results[j].timed}} \cup {0}
    IN CHOOSE t \in times : \A u \in times : u <= t

\* C28: continuous_monitoring never ends by raising: it reaches its return
\* with the list of completed results, whatever the duration, the interval and
\* the moment of an interrupt.
C28_MonitoringNeverRaises ==
    cm.at # "raised"

\* C29: the avg_response_time of a returned report is at most the largest
\* response_time recorded among its endpoint results.
C29_AverageAtMostMaximum ==
    hc.at = "returned" =>
        hc.report.avg_response_time.num
            <= MaxRecorded(hc.results) * hc.report.avg_response_time.den

\* C30: run_health_checks checks the endpoints one by one in list order and
\* always returns; it returns after one result per endpoint; a result is a
\* success exactly when a status code in 200..399 was received, every failed
\* request is a success=False result, and overall_success holds exactly when
\* every result is a success.
C30_EveryEndpointCheckedOnce ==
    /\ hc.at \in {"idle", "loop", "returned"}
    /\ Len(hc.results) <= Len(endpoints)
    /\ \A i \in 1..Len(hc.results) :
          /\ hc.results[i].endpoint = endpoints[i]
          /\ hc.results[i].success <=>
                (hc.results[i].answered /\ hc.results[i].status_code \in 200..399)
          /\ hc.results[i].error # "none" => ~hc.results[i].success
    /\ hc.at = "returned" =>
          /\ Len(hc.results) = Len(endpoints)
          /\ hc.report.total_checks = Len(endpoints)
          /\ hc.report.overall_success <=>
                \A i \in 1..Len(hc.results) : hc.results[i].success

C30_Witness ==
    /\ hc.at = "returned"
    /\ hc.results[1].error = "Timeout"
    /\ hc.results[2].status_code = 400
    /\ hc.results[3].success
    /\ ~hc.report.overall_success

====
